---- MODULE Spec2Model ----
(***************************************************************************)
(* Model of the SMA-crossover backtest of simple_backtest_no_plot.py.      *)
(*                                                                         *)
(* sma_crossover_strategy first derives the columns SMA_Fast, SMA_Slow,    *)
(* Signal and Position from the price column, then walks the rows once,    *)
(* mutating cash, btc_held, the trade log and the portfolio_value list.    *)
(* One step of the model is one iteration of that loop (or the code after  *)
(* the loop).                                                              *)
(*                                                                         *)
(* Numbers.  The program computes in floating point; the model computes    *)
(* with exact fractions <<numerator, denominator>> in lowest terms, the    *)
(* denominator positive.  NaN (the value pandas gives an undefined rolling *)
(* mean and the first row of diff()) is the pair <<0, 0>>; every           *)
(* comparison with NaN is false, as in IEEE arithmetic.  The prices of     *)
(* the model are small integers, for which the order of two rolling means  *)
(* in floating point is the order of the exact fractions.                  *)
(*                                                                         *)
(* Indices.  The program's row index i is 0-based; TLA+ sequences are      *)
(* 1-based, so row i of a column c is c[i + 1].                            *)
(***************************************************************************)
EXTENDS Integers, Sequences, FiniteSets, TLC

VARIABLES
    price,            \* data['price']: the closes, in bar order
    fast_period,      \* parameter fast_period
    slow_period,      \* parameter slow_period
    initial_capital,  \* parameter initial_capital
    pc,               \* "loop": in the for loop; "done": returned; "raised": an exception left the function
    i,                \* number of rows the loop has completed = index of the next row
    cash,             \* local cash
    btc_held,         \* local btc_held
    portfolio_value,  \* local portfolio_value (list)
    trades,           \* local trades (list of dicts)
    result,           \* the returned dict, or NoResult
    sample,           \* run_backtest_with_sample: what backtest_strategy returned, or NoSample
    order,            \* SMACrossStrategy: self.order, NoOrder or the ref of the order kept
    orders,           \* the broker's orders, by ref: [side, status]
    position_size,    \* the broker's position size (self.position is true iff it is not 0)
    sma_cmp,          \* how sma_fast[0] compares with sma_slow[0] on the current bar
    bars,             \* number of calls of next() so far
    main_pc,          \* run_minute_backtest.main: where it is
    returned          \* what run_backtest returned to main, or <<>>

\* the state of sma_crossover_strategy
loopVars == <<price, fast_period, slow_period, initial_capital, pc, i, cash,
              btc_held, portfolio_value, trades, result>>

\* the state of SMACrossStrategy and its broker
strategyVars == <<order, orders, position_size, sma_cmp, bars>>

\* the state of run_minute_backtest.main
mainVars == <<main_pc, returned>>

vars == <<price, fast_period, slow_period, initial_capital, pc, i, cash,
          btc_held, portfolio_value, trades, result, sample, order, orders,
          position_size, sma_cmp, bars, main_pc, returned>>

----------------------------------------------------------------------------
(* Bounds of the model *)

MaxLen == 4

MaxPrice == 3

MaxPeriod == 3

\* the number of bars SMACrossStrategy.next is called on
MaxBars == 4

\* the largest number of trades the TradeAnalyzer reports
MaxTrades == 3

\* the longer series over fewer prices and periods, on which a run can sell
\* at a close of 0 and then meet an Enter and an Exit with an empty account
MaxLenDeep == 5

MaxPriceDeep == 2

MaxPeriodDeep == 2

(* The default of the parameter initial_capital *)
DefaultCapital == 10000

(* The defaults of src/config.py *)
SMA_FAST == 20

SMA_SLOW == 50

INITIAL_CASH == 10000

----------------------------------------------------------------------------
(* Exact fractions standing for the program's floats *)

RECURSIVE Gcd(_, _)
Gcd(a, b) == IF b = 0 THEN a ELSE Gcd(b, a % b)

Abs(n) == IF n < 0 THEN -n ELSE n

NaN == <<0, 0>>

IsNaN(x) == x[2] = 0

Frac(n, d) ==
    IF d = 0 THEN NaN
    ELSE LET g == Gcd(Abs(n), Abs(d))
             s == IF d < 0 THEN -1 ELSE 1
         IN  <<(s * n) \div g, (s * d) \div g>>

Num(n) == <<n, 1>>

FAdd(x, y) == IF IsNaN(x) \/ IsNaN(y) THEN NaN
              ELSE Frac(x[1] * y[2] + y[1] * x[2], x[2] * y[2])

FSub(x, y) == IF IsNaN(x) \/ IsNaN(y) THEN NaN
              ELSE Frac(x[1] * y[2] - y[1] * x[2], x[2] * y[2])

FMul(x, y) == IF IsNaN(x) \/ IsNaN(y) THEN NaN
              ELSE Frac(x[1] * y[1], x[2] * y[2])

\* x / y for y # 0 (the program's division by zero is modelled where it happens)
FDiv(x, y) == IF IsNaN(x) \/ IsNaN(y) THEN NaN
              ELSE Frac(x[1] * y[2], x[2] * y[1])

FGt(x, y) == ~IsNaN(x) /\ ~IsNaN(y) /\ x[1] * y[2] > y[1] * x[2]

FGe(x, y) == ~IsNaN(x) /\ ~IsNaN(y) /\ x[1] * y[2] >= y[1] * x[2]

FEq(x, y) == ~IsNaN(x) /\ ~IsNaN(y) /\ x[1] * y[2] = y[1] * x[2]

\* COMMISSION = 0.001 of the configuration module (0.1% commission)
COMMISSION == Frac(1, 1000)

----------------------------------------------------------------------------
(* The derived columns of df; k is the program's 0-based row index *)

RECURSIVE SumRange(_, _, _)
\* data[lo] + ... + data[hi], 0-based, inclusive
SumRange(data, lo, hi) ==
    IF hi < lo THEN 0 ELSE data[hi + 1] + SumRange(data, lo, hi - 1)

\* Variant of calculate_sma: the rolling mean shifted one row back
\* (.shift(-1)), so row k holds the mean of the window that ends at row k + 1
calculate_smaShiftedBack(data, period, k) ==
    IF k + 1 > Len(data) - 1 \/ k + 2 < period THEN NaN
    ELSE Frac(SumRange(data, k - period + 2, k + 1), period)

\* data['price'].rolling(window=period).mean() at row k:
\* NaN for the first period-1 rows, then the mean of the last period closes
calculate_sma(data, period, k) ==
    IF k + 1 < period THEN NaN
    ELSE Frac(SumRange(data, k - period + 1, k), period)

SMA_Fast(k) == calculate_sma(price, fast_period, k)

SMA_Slow(k) == calculate_sma(price, slow_period, k)

\* Variant of SignalOf: the comparison written >=, so a tie counts as Long
SignalOfTiesLong(k, fast, slow) ==
    IF k >= fast_period /\ FGe(fast, slow) THEN 1 ELSE 0

\* df['Signal'] = 0; df['Signal'][fast_period:] = np.where(fast > slow, 1, 0)
\* (the chained assignment writes through, as it does in the pandas
\*  versions that only warn about it)
SignalOf(k, fast, slow) ==
    IF k >= fast_period /\ FGt(fast, slow) THEN 1 ELSE 0

Signal(k) == SignalOf(k, SMA_Fast(k), SMA_Slow(k))

\* a variant of PositionOf that takes the difference the other way round
PositionOfReversed(k, sig, prev) == IF k = 0 THEN NaN ELSE Num(prev - sig)

\* df['Position'] = df['Signal'].diff(): NaN at row 0, else the difference
PositionOf(k, sig, prev) == IF k = 0 THEN NaN ELSE Num(sig - prev)

Position(k) == PositionOf(k, Signal(k), IF k = 0 THEN 0 ELSE Signal(k - 1))

----------------------------------------------------------------------------
(* The body of the loop *)

\* Variant of BuyGuard: the test cash > 0 left out
BuyGuardNoCashCheck(position, c) == FEq(position, Num(1))

\* Variant of BuyGuard: "the position changed" written as Position != 0,
\* which is true of the NaN of row 0
BuyGuardAnyChange(position, c) == ~FEq(position, Num(0)) /\ FGt(c, Num(0))

\* if row['Position'] == 1 and cash > 0
BuyGuard(position, c) == FEq(position, Num(1)) /\ FGt(c, Num(0))

\* Variant of SellGuard: the test btc_held > 0 left out
SellGuardNoHoldingCheck(position, b) == FEq(position, Num(-1))

\* elif row['Position'] == -1 and btc_held > 0
SellGuard(position, b) == FEq(position, Num(-1)) /\ FGt(b, Num(0))

\* btc_to_buy = cash / current_price
BtcToBuy(c, current_price) == FDiv(c, Num(current_price))

\* cash_received = btc_held * current_price
CashReceived(b, current_price) == FMul(b, Num(current_price))

\* Variant of CashAfterBuy: the assignment cash = 0 left out
CashAfterBuyKept(c) == c

\* cash = 0 (after a buy)
CashAfterBuy(c) == Num(0)

\* btc_held = 0 (after a sell)
BtcAfterSell(b) == Num(0)

\* current_value = cash + (btc_held * current_price)
CurrentValue(c, b, current_price) == FAdd(c, FMul(b, Num(current_price)))

BuyTrade(date, current_price, btc_to_buy, c) ==
    [date |-> date, action |-> "BUY", price |-> current_price,
     btc_amount |-> btc_to_buy, cash_remaining |-> c]

\* Variant of SellTrade: the dict of the buy branch copied with its action
SellTradeMislabelled(date, current_price, b, c) ==
    [date |-> date, action |-> "BUY", price |-> current_price,
     btc_amount |-> b, cash_remaining |-> c]

SellTrade(date, current_price, b, c) ==
    [date |-> date, action |-> "SELL", price |-> current_price,
     btc_amount |-> b, cash_remaining |-> c]

NoResult == [final_value |-> NaN, total_return |-> NaN, num_trades |-> -1]

\* The row the loop is about to process
current_price == price[i + 1]

InLoop == pc = "loop" /\ i < Len(price)

\* The buy branch: all of cash is converted at the bar's close
BarBuy ==
    /\ InLoop
    /\ BuyGuard(Position(i), cash)
    /\ current_price # 0
    /\ LET btc_to_buy == BtcToBuy(cash, current_price)
           b == FAdd(btc_held, btc_to_buy)
           c == CashAfterBuy(cash)
       IN  /\ btc_held' = b
           /\ cash' = c
           /\ trades' = Append(trades, BuyTrade(i, current_price, btc_to_buy, c))
           /\ portfolio_value' =
                  Append(portfolio_value, CurrentValue(c, b, current_price))
    /\ i' = i + 1
    /\ UNCHANGED <<price, fast_period, slow_period, initial_capital, pc, result>>
    /\ UNCHANGED <<sample, strategyVars, mainVars>>

\* The buy branch on a bar whose close is 0: cash / current_price raises
\* ZeroDivisionError (the row of a frame with a date column holds Python
\* numbers), and the exception leaves the function
BarBuyRaises ==
    /\ InLoop
    /\ BuyGuard(Position(i), cash)
    /\ current_price = 0
    /\ pc' = "raised"
    /\ UNCHANGED <<price, fast_period, slow_period, initial_capital, i, cash,
                   btc_held, portfolio_value, trades, result>>
    /\ UNCHANGED <<sample, strategyVars, mainVars>>

\* The sell branch: all of btc_held is converted at the bar's close
BarSell ==
    /\ InLoop
    /\ ~BuyGuard(Position(i), cash)
    /\ SellGuard(Position(i), btc_held)
    /\ LET cash_received == CashReceived(btc_held, current_price)
           c == FAdd(cash, cash_received)
           b == BtcAfterSell(btc_held)
       IN  /\ cash' = c
           /\ trades' = Append(trades, SellTrade(i, current_price, btc_held, c))
           /\ btc_held' = b
           /\ portfolio_value' =
                  Append(portfolio_value, CurrentValue(c, b, current_price))
    /\ i' = i + 1
    /\ UNCHANGED <<price, fast_period, slow_period, initial_capital, pc, result>>
    /\ UNCHANGED <<sample, strategyVars, mainVars>>

\* Neither branch: only the portfolio value is recorded
BarHold ==
    /\ InLoop
    /\ ~BuyGuard(Position(i), cash)
    /\ ~SellGuard(Position(i), btc_held)
    /\ portfolio_value' =
           Append(portfolio_value, CurrentValue(cash, btc_held, current_price))
    /\ i' = i + 1
    /\ UNCHANGED <<price, fast_period, slow_period, initial_capital, pc, cash,
                   btc_held, trades, result>>
    /\ UNCHANGED <<sample, strategyVars, mainVars>>

----------------------------------------------------------------------------
(* After the loop *)

\* total_return = (final_value / initial_capital - 1) * 100
TotalReturn(final_value, capital) ==
    FMul(FSub(FDiv(final_value, Num(capital)), Num(1)), Num(100))

\* final_value = portfolio_value[-1] ... return {...}
\* (result keeps final_value, total_return and num_trades; the buy-and-hold
\*  figure and the CSV files written on the way read the state and change
\*  none of it)
Finish ==
    /\ pc = "loop"
    /\ i = Len(price)
    /\ Len(portfolio_value) > 0
    /\ LET final_value == portfolio_value[Len(portfolio_value)]
       IN  result' = [final_value |-> final_value,
                      total_return |-> TotalReturn(final_value, initial_capital),
                      num_trades |-> Len(trades)]
    /\ pc' = "done"
    /\ UNCHANGED <<price, fast_period, slow_period, initial_capital, i, cash,
                   btc_held, portfolio_value, trades>>
    /\ UNCHANGED <<sample, strategyVars, mainVars>>

\* portfolio_value[-1] on an empty list raises IndexError
FinishRaises ==
    /\ pc = "loop"
    /\ i = Len(price)
    /\ Len(portfolio_value) = 0
    /\ pc' = "raised"
    /\ UNCHANGED <<price, fast_period, slow_period, initial_capital, i, cash,
                   btc_held, portfolio_value, trades, result>>
    /\ UNCHANGED <<sample, strategyVars, mainVars>>

----------------------------------------------------------------------------
(* Inputs and the specification *)

\* backtest_strategy has not run
NoSample == [status |-> "none", equity |-> <<>>, total_return |-> NaN,
             sharpe_ratio |-> "none", max_drawdown |-> NaN]

SampleIdle == sample = NoSample

\* self.order = None
NoOrder == 0

\* SMACrossStrategy is not running
StrategyIdle ==
    /\ order = NoOrder
    /\ orders = <<>>
    /\ position_size = 0
    /\ sma_cmp = "none"
    /\ bars = 0

\* run_minute_backtest.main is not running
MainIdle == main_pc = "idle" /\ returned = <<>>

Prices == 0..MaxPrice

RECURSIVE SeqsUpTo(_, _)
\* every sequence over S of length at most n
SeqsUpTo(S, n) ==
    IF n = 0 THEN {<<>>}
    ELSE LET shorter == SeqsUpTo(S, n - 1)
         IN  shorter \cup {Append(s, x) : s \in {t \in shorter : Len(t) = n - 1}, x \in S}

Init ==
    /\ price \in SeqsUpTo(Prices, MaxLen)
    /\ fast_period \in 1..MaxPeriod
    /\ slow_period \in 1..MaxPeriod
    /\ initial_capital = DefaultCapital
    /\ pc = "loop"
    /\ i = 0
    /\ cash = Num(initial_capital)
    /\ btc_held = Num(0)
    /\ portfolio_value = <<>>
    /\ trades = <<>>
    /\ result = NoResult
    /\ SampleIdle
    /\ StrategyIdle
    /\ MainIdle

Next == BarBuy \/ BarBuyRaises \/ BarSell \/ BarHold \/ Finish \/ FinishRaises

Spec == Init /\ [][Next]_vars

\* the same function on the longer series
InitDeep ==
    /\ price \in SeqsUpTo(0..MaxPriceDeep, MaxLenDeep)
    /\ fast_period \in 1..MaxPeriodDeep
    /\ slow_period \in 1..MaxPeriodDeep
    /\ initial_capital = DefaultCapital
    /\ pc = "loop"
    /\ i = 0
    /\ cash = Num(initial_capital)
    /\ btc_held = Num(0)
    /\ portfolio_value = <<>>
    /\ trades = <<>>
    /\ result = NoResult
    /\ SampleIdle
    /\ StrategyIdle
    /\ MainIdle

SpecDeep == InitDeep /\ [][Next]_vars

----------------------------------------------------------------------------
(* run_backtest_with_sample.py: sma_crossover_strategy and backtest_strategy *)
(* on the closes data, with the same periods.  The closes are strictly     *)
(* positive here: pct_change() over a close of 0 is an infinity, which the *)
(* fractions do not represent.                                             *)

\* df['signal'] at row k
SampleSignal(data, k) ==
    SignalOf(k, calculate_sma(data, fast_period, k),
                calculate_sma(data, slow_period, k))

\* df['returns'] = df['close'].pct_change(): NaN at row 0
Returns(data, k) ==
    IF k = 0 THEN NaN
    ELSE FSub(FDiv(Num(data[k + 1]), Num(data[k])), Num(1))

\* Variant of StrategyReturns: the shift(1) left out, so the return of bar k
\* is credited with the signal of bar k itself
StrategyReturnsNoShift(data, k) ==
    IF k = 0 THEN NaN
    ELSE FMul(Num(SampleSignal(data, k)), Returns(data, k))

\* df['strategy_returns'] = df['signal'].shift(1) * df['returns']
StrategyReturns(data, k) ==
    IF k = 0 THEN NaN
    ELSE FMul(Num(SampleSignal(data, k - 1)), Returns(data, k))

RECURSIVE RunningProduct(_, _)
\* the product of 1 + strategy_returns over the rows 0..k that are not NaN
RunningProduct(data, k) ==
    IF k < 0 THEN Num(1)
    ELSE LET r == StrategyReturns(data, k)
         IN  IF IsNaN(r) THEN RunningProduct(data, k - 1)
             ELSE FMul(RunningProduct(data, k - 1), FAdd(Num(1), r))

\* df['cumulative_returns'] = (1 + df['strategy_returns']).cumprod():
\* cumprod() skips a NaN and leaves NaN in its row
CumulativeReturns(data, k) ==
    IF IsNaN(StrategyReturns(data, k)) THEN NaN ELSE RunningProduct(data, k)

\* df['equity'] = initial_capital * df['cumulative_returns']
Equity(data, k) == FMul(Num(initial_capital), CumulativeReturns(data, k))

\* the rows whose strategy return is a number (mean() and std() skip NaN)
Observed(data) == {k \in 0..(Len(data) - 1) : ~IsNaN(StrategyReturns(data, k))}

RECURSIVE FSum(_, _, _)
\* the sum of f[k] over the rows k of S
FSum(f, S, data) ==
    IF S = {} THEN Num(0)
    ELSE LET k == CHOOSE x \in S : TRUE
         IN  FAdd(f[k], FSum(f, S \ {k}, data))

\* df['strategy_returns'].mean(): NaN without an observation
MeanReturn(data) ==
    LET S == Observed(data)
    IN  IF S = {} THEN NaN
        ELSE FDiv(FSum([k \in S |-> StrategyReturns(data, k)], S, data),
                  Num(Cardinality(S)))

\* the square of df['strategy_returns'].std() (ddof = 1): NaN with fewer
\* than two observations
VarReturn(data) ==
    LET S == Observed(data)
        m == MeanReturn(data)
    IN  IF Cardinality(S) < 2 THEN NaN
        ELSE FDiv(FSum([k \in S |->
                           LET d == FSub(StrategyReturns(data, k), m)
                           IN  FMul(d, d)], S, data),
                  Num(Cardinality(S) - 1))

\* sharpe_ratio = mean / std * np.sqrt(252*24), up to its positive factor:
\* "nan" for a NaN mean or std and for 0 / 0, an infinity for x / 0, else
\* the sign of the mean.  With numpy floats the division by zero warns and
\* does not raise.
SharpeRatio(data) ==
    LET m == MeanReturn(data)
        v == VarReturn(data)
    IN  IF IsNaN(m) \/ IsNaN(v) THEN "nan"
        ELSE IF FEq(v, Num(0))
             THEN IF FEq(m, Num(0)) THEN "nan"
                  ELSE IF FGt(m, Num(0)) THEN "inf" ELSE "-inf"
             ELSE IF FEq(m, Num(0)) THEN "zero"
                  ELSE IF FGt(m, Num(0)) THEN "positive" ELSE "negative"

RECURSIVE CumMax(_, _)
\* df['equity'].cummax() at row k: the largest equity of the rows 0..k that
\* are not NaN (NaN where the row itself is NaN)
CumMax(data, k) ==
    IF k < 0 THEN NaN
    ELSE LET e == Equity(data, k)
             m == CumMax(data, k - 1)
         IN  IF IsNaN(e) THEN m
             ELSE IF IsNaN(m) \/ FGt(e, m) THEN e ELSE m

\* df['equity'] / df['equity'].cummax() - 1 at row k
Drawdown(data, k) ==
    LET e == Equity(data, k)
    IN  IF IsNaN(e) THEN NaN ELSE FSub(FDiv(e, CumMax(data, k)), Num(1))

RECURSIVE MinDrawdown(_, _)
\* max_drawdown = (...).min() over the rows 0..k, skipping NaN
MinDrawdown(data, k) ==
    IF k < 0 THEN NaN
    ELSE LET d == Drawdown(data, k)
             m == MinDrawdown(data, k - 1)
         IN  IF IsNaN(d) THEN m
             ELSE IF IsNaN(m) \/ FGt(m, d) THEN d ELSE m

\* total_return = df['equity'].iloc[-1] / initial_capital - 1
SampleTotalReturn(data) ==
    FSub(FDiv(Equity(data, Len(data) - 1), Num(initial_capital)), Num(1))

\* backtest_strategy(data) on a frame with at least one row
BacktestStrategy ==
    /\ pc \in {"done", "raised"}
    /\ sample = NoSample
    /\ Len(price) > 0
    /\ sample' = [status |-> "returned",
                  equity |-> [k \in 1..Len(price) |-> Equity(price, k - 1)],
                  total_return |-> SampleTotalReturn(price),
                  sharpe_ratio |-> SharpeRatio(price),
                  max_drawdown |-> MinDrawdown(price, Len(price) - 1)]
    /\ UNCHANGED <<loopVars, strategyVars, mainVars>>

\* backtest_strategy(data) on an empty frame: df['equity'].iloc[-1] raises
\* IndexError
BacktestStrategyRaises ==
    /\ pc \in {"done", "raised"}
    /\ sample = NoSample
    /\ Len(price) = 0
    /\ sample' = [NoSample EXCEPT !.status = "raised"]
    /\ UNCHANGED <<loopVars, strategyVars, mainVars>>

\* both scripts run on the same strictly positive closes, one after the other
InitCompare == Init /\ \A k \in 1..Len(price) : price[k] > 0

\* (BarBuyRaises needs a close of 0 and is left out)
NextCompare ==
    \/ BarBuy \/ BarSell \/ BarHold \/ Finish \/ FinishRaises
    \/ BacktestStrategy \/ BacktestStrategyRaises

SpecCompare == InitCompare /\ [][NextCompare]_vars

----------------------------------------------------------------------------
(* sma_crossover_strategy of simple_backtest_no_plot.py as a function of    *)
(* the frame it is given: the columns and the loop over any series data     *)

\* df['Signal'] at row k of the frame data
SignalIn(data, k) ==
    SignalOf(k, calculate_sma(data, fast_period, k),
                calculate_sma(data, slow_period, k))

\* df['Position'] at row k of the frame data
PositionIn(data, k) ==
    PositionOf(k, SignalIn(data, k), IF k = 0 THEN 0 ELSE SignalIn(data, k - 1))

\* one iteration of the loop, on row k of data, from the locals st
LoopBody(st, data, k) ==
    LET close == data[k + 1]
        pos == PositionIn(data, k)
    IN  IF st.pc = "raised" THEN st
        ELSE IF BuyGuard(pos, st.cash)
        THEN IF close = 0 THEN [st EXCEPT !.pc = "raised"]
             ELSE LET btc_to_buy == BtcToBuy(st.cash, close)
                      b == FAdd(st.btc_held, btc_to_buy)
                      c == CashAfterBuy(st.cash)
                  IN  [pc |-> st.pc, cash |-> c, btc_held |-> b,
                       trades |-> Append(st.trades, BuyTrade(k, close, btc_to_buy, c)),
                       portfolio_value |->
                           Append(st.portfolio_value, CurrentValue(c, b, close))]
        ELSE IF SellGuard(pos, st.btc_held)
        THEN LET c == FAdd(st.cash, CashReceived(st.btc_held, close))
                 b == BtcAfterSell(st.btc_held)
             IN  [pc |-> st.pc, cash |-> c, btc_held |-> b,
                  trades |-> Append(st.trades, SellTrade(k, close, st.btc_held, c)),
                  portfolio_value |->
                      Append(st.portfolio_value, CurrentValue(c, b, close))]
        ELSE [st EXCEPT !.portfolio_value =
                  Append(@, CurrentValue(st.cash, st.btc_held, close))]

RECURSIVE LoopAfter(_, _)
\* the locals after the first n rows of data
LoopAfter(data, n) ==
    IF n = 0
    THEN [pc |-> "loop", cash |-> Num(initial_capital), btc_held |-> Num(0),
          trades |-> <<>>, portfolio_value |-> <<>>]
    ELSE LoopBody(LoopAfter(data, n - 1), data, n - 1)

----------------------------------------------------------------------------
(* SMACrossStrategy of src/strategies.py.  The broker calls notify_order    *)
(* each time it moves an order to a new status and cerebro calls next once  *)
(* a bar, after both moving averages are defined.  The model interleaves    *)
(* the two freely.  An order is a record [side, status]; self.order is the  *)
(* index of the order in orders, or NoOrder for None.  The statuses are     *)
(* those notify_order names; the broker cerebro creates by default fills a  *)
(* market order whole and never expires it, so Partial and Expired are not  *)
(* sent.                                                                    *)

\* sma_fast[0] compared with sma_slow[0] on the current bar
SmaCmp == {"gt", "eq", "lt"}

\* the statuses that end an order
Terminal == {"Completed", "Canceled", "Margin", "Rejected"}

\* the statuses the broker can move an order to from status s
Successors(s) ==
    CASE s = "Created"   -> {"Submitted"}
      [] s = "Submitted" -> {"Accepted", "Rejected", "Margin", "Canceled"}
      [] s = "Accepted"  -> {"Completed", "Canceled", "Margin"}
      [] OTHER           -> {}

\* a variant of OrderAfterNotify that forgets the order only once it is
\* completed
OrderAfterNotifyCompletedOnly(ord, status) ==
    IF status = "Completed" THEN NoOrder ELSE ord

\* self.order after notify_order: kept on Submitted and Accepted, None after
\* every other status
OrderAfterNotify(ord, status) ==
    IF status \in {"Submitted", "Accepted"} THEN ord ELSE NoOrder

\* the position of the broker after it moved an order of this side to status
PositionAfter(pos, side, status) ==
    IF status = "Completed"
    THEN IF side = "buy" THEN 1 ELSE 0
    ELSE pos

\* notify_order(order) for order j reaching status s
notify_order(j, s) ==
    /\ pc = "idle"
    /\ j \in 1..Len(orders)
    /\ s \in Successors(orders[j].status)
    /\ orders' = [orders EXCEPT ![j].status = s]
    /\ position_size' = PositionAfter(position_size, orders[j].side, s)
    /\ order' = OrderAfterNotify(order, s)
    /\ UNCHANGED <<sma_cmp, bars>>
    /\ UNCHANGED <<loopVars, sample, mainVars>>

\* what next() does: nothing with an order pending, a buy when flat with the
\* fast average above the slow one, a sell when in the market with the fast
\* average below it, nothing otherwise
NextDecision(ord, pos, c) ==
    IF ord # NoOrder THEN "pending"
    ELSE IF pos = 0
         THEN IF c = "gt" THEN "buy" ELSE "hold"
         ELSE IF c = "lt" THEN "sell" ELSE "hold"

\* next() on a bar whose averages compare as c
next(c) ==
    /\ pc = "idle"
    /\ bars < MaxBars
    /\ bars' = bars + 1
    /\ sma_cmp' = c
    /\ LET d == NextDecision(order, position_size, c)
       IN  IF d \in {"buy", "sell"}
           THEN /\ orders' = Append(orders, [side |-> d, status |-> "Created"])
                /\ order' = Len(orders) + 1
           ELSE UNCHANGED <<order, orders>>
    /\ UNCHANGED position_size
    /\ UNCHANGED <<loopVars, sample, mainVars>>

\* sma_crossover_strategy is not running
LoopIdle ==
    /\ price = <<>>
    /\ fast_period = SMA_FAST
    /\ slow_period = SMA_SLOW
    /\ initial_capital = INITIAL_CASH
    /\ pc = "idle"
    /\ i = 0
    /\ cash = Num(initial_capital)
    /\ btc_held = Num(0)
    /\ portfolio_value = <<>>
    /\ trades = <<>>
    /\ result = NoResult

InitStrategy == LoopIdle /\ SampleIdle /\ StrategyIdle /\ MainIdle

NextStrategy ==
    \/ \E c \in SmaCmp : next(c)
    \/ \E j \in 1..MaxBars, s \in Terminal \cup {"Submitted", "Accepted"} :
           notify_order(j, s)

SpecStrategy == InitStrategy /\ [][NextStrategy]_vars

----------------------------------------------------------------------------
(* main of run_minute_backtest.py calling BitcoinBacktester.run_backtest of *)
(* src/backtester.py.  What cerebro.run() and the analyzers give is an      *)
(* input: the TradeAnalyzer's totals, the SharpeRatio analyzer's value      *)
(* (<<>> for None, else <<v>>) and the broker's final value.  The model     *)
(* starts where main() is called.                                           *)

\* what the analyzers can report
Analyses ==
    {[total |-> t, won |-> w, lost |-> l, sharpe |-> sh] :
        t \in 0..MaxTrades, w \in 0..MaxTrades, l \in 0..MaxTrades,
        sh \in {<<>>} \cup {<<v>> : v \in -1..1}}

\* print_analyzer_results: the sharpe ratio and the trade entries of metrics
print_analyzer_results(an) ==
    [sharpe_ratio   |-> IF an.sharpe # <<>> /\ an.sharpe[1] # 0
                        THEN an.sharpe[1] ELSE 0,
     total_trades   |-> IF an.total > 0 THEN an.total ELSE 0,
     winning_trades |-> IF an.total > 0 THEN an.won ELSE 0,
     losing_trades  |-> IF an.total > 0 THEN an.lost ELSE 0,
     win_rate       |-> IF an.total > 0
                        THEN FDiv(Num(an.won), Num(an.total)) ELSE Num(0)]

\* the value of `return results, final_value, metrics`
run_backtest(an, final_value) ==
    <<an, final_value, print_analyzer_results(an)>>

\* main up to the call of run_backtest: setup_data raises ValueError when no
\* data comes back
SetupComponents ==
    /\ main_pc = "start"
    /\ \E data_ok \in BOOLEAN :
           main_pc' = IF data_ok THEN "run" ELSE "handler"
    /\ UNCHANGED returned
    /\ UNCHANGED <<loopVars, sample, strategyVars>>

\* backtester.run_backtest(plot=True) returns
RunBacktest ==
    /\ main_pc = "run"
    /\ \E an \in Analyses, final_value \in Prices :
           /\ an.won + an.lost <= an.total
           /\ returned' = run_backtest(an, final_value)
    /\ main_pc' = "returned"
    /\ UNCHANGED <<loopVars, sample, strategyVars>>

\* `results, final_value = ...` and the rest of the try block: unpacking a
\* tuple that is not of length 2 raises ValueError, which the except clause
\* catches
ConsumeResult ==
    /\ main_pc = "returned"
    /\ main_pc' = IF Len(returned) = 2 THEN "completed" ELSE "handler"
    /\ UNCHANGED returned
    /\ UNCHANGED <<loopVars, sample, strategyVars>>

\* except Exception: print the error and sys.exit(1)
ErrorHandler ==
    /\ main_pc = "handler"
    /\ main_pc' = "exit1"
    /\ UNCHANGED returned
    /\ UNCHANGED <<loopVars, sample, strategyVars>>

InitMain ==
    /\ LoopIdle
    /\ SampleIdle
    /\ StrategyIdle
    /\ main_pc = "start"
    /\ returned = <<>>

NextMain == SetupComponents \/ RunBacktest \/ ConsumeResult \/ ErrorHandler

SpecMain == InitMain /\ [][NextMain]_vars

----------------------------------------------------------------------------
(* Properties of sma_crossover_strategy *)

\* the number of trades in the log whose action is a
NumAction(a) == Cardinality({j \in 1..Len(trades) : trades[j].action = a})

\* the configuration surface: 1 <= fastPeriod < slowPeriod
ValidPeriods == 1 <= fast_period /\ fast_period < slow_period

\* whether the log holds a trade of that action dated at row k
TradeAt(k, a) == \E j \in 1..Len(trades) : trades[j].date = k /\ trades[j].action = a

AnyTradeAt(k) == \E j \in 1..Len(trades) : trades[j].date = k

\* C1: after each processed bar, for every series and every pair of periods,
\* the number of BUY trades minus the number of SELL trades is 0 or 1, and
\* the trade log alternates BUY, SELL, BUY, ... starting with a BUY.
Thm_C1 ==
    /\ NumAction("BUY") - NumAction("SELL") \in {0, 1}
    /\ \A j \in 1..Len(trades) :
           trades[j].action = IF j % 2 = 1 THEN "BUY" ELSE "SELL"

\* a run whose log reads BUY, SELL, BUY
Wit_C1 ==
    /\ Len(trades) >= 3
    /\ trades[1].action = "BUY"
    /\ trades[2].action = "SELL"
    /\ trades[3].action = "BUY"

\* C2: for every series of non-negative closes and initial capital > 0
\* (here already in a configuration with 1 <= fastPeriod < slowPeriod),
\* every bar of the loop completes with cash >= 0, btc_held >= 0 and a
\* recorded portfolio value that is finite and >= 0.
Claim_C2 ==
    ((\A k \in 1..Len(price) : price[k] >= 0) /\ initial_capital > 0
        /\ ValidPeriods) =>
        /\ ~(pc = "raised" /\ i < Len(price))
        /\ FGe(cash, Num(0))
        /\ FGe(btc_held, Num(0))
        /\ \A j \in 1..Len(portfolio_value) : FGe(portfolio_value[j], Num(0))

\* a step of the loop that takes the buy branch and completes the bar
BuyStep == InLoop /\ BuyGuard(Position(i), cash) /\ i' = i + 1

\* a step of the loop that takes the sell branch
SellStep ==
    InLoop /\ ~BuyGuard(Position(i), cash) /\ SellGuard(Position(i), btc_held)

OneMinusCommission == FSub(Num(1), COMMISSION)

\* C3: when an Enter fires while the account is flat with cash > 0, holdings
\* become cash * (1 - commissionRate) / close, cash becomes 0, and one BUY
\* trade with that quantity is appended (commissionRate being the
\* repository's configured COMMISSION).
Claim_C3 ==
    [][BuyStep =>
         LET quantity == FDiv(FMul(cash, OneMinusCommission), Num(current_price))
         IN  /\ btc_held' = quantity
             /\ cash' = Num(0)
             /\ Len(trades') = Len(trades) + 1
             /\ trades'[Len(trades')].action = "BUY"
             /\ trades'[Len(trades')].btc_amount = quantity]_vars

\* C4: when an Exit fires while long, the cash received is
\* holdings * close * (1 - commissionRate), holdings become 0 and one SELL
\* trade is appended; after one Enter at p1 and one Exit at p2 the cash is
\* initialCash * (1 - commissionRate)^2 * p2 / p1.
Claim_C4 ==
    [][SellStep =>
         LET received == FMul(FMul(btc_held, Num(current_price)), OneMinusCommission)
         IN  /\ cash' = FAdd(cash, received)
             /\ btc_held' = Num(0)
             /\ Len(trades') = Len(trades) + 1
             /\ trades'[Len(trades')].action = "SELL"
             /\ Len(trades') = 2 =>
                    cash' = FDiv(FMul(FMul(FMul(Num(initial_capital),
                                                OneMinusCommission),
                                           OneMinusCommission),
                                      Num(trades'[2].price)),
                                 Num(trades'[1].price))]_vars

\* the bars on which the claim says nothing happens: the position change of
\* row i is None (0, or the NaN of row 0), or Enter with cash = 0, or Exit
\* with btc_held = 0
NoActionBar ==
    LET position == Position(i)
    IN  \/ IsNaN(position)
        \/ FEq(position, Num(0))
        \/ FEq(position, Num(1)) /\ FEq(cash, Num(0))
        \/ FEq(position, Num(-1)) /\ FEq(btc_held, Num(0))

\* C5: a bar whose position change is None, or Enter while cash = 0, or
\* Exit while btc_held = 0, leaves cash, btc_held and the trade log
\* unchanged; cash and btc_held change only on a bar that appends a trade.
Thm_C5 ==
    [][/\ (InLoop /\ NoActionBar) => UNCHANGED <<cash, btc_held, trades>>
       /\ (cash' # cash \/ btc_held' # btc_held) =>
              /\ i' = i + 1
              /\ Len(trades') = Len(trades) + 1
              /\ SubSeq(trades', 1, Len(trades)) = trades]_vars

\* a completed bar whose position change was Enter and on which nothing was
\* bought, the cash being 0, and after it a completed bar whose position
\* change was Exit and on which nothing was sold, btc_held being 0
Wit_C5 ==
    /\ i >= 2
    /\ Len(trades) >= 2
    /\ FEq(cash, Num(0))
    /\ FEq(btc_held, Num(0))
    /\ \E k \in 0..(i - 2) :
           FEq(Position(k), Num(1)) /\ ~AnyTradeAt(k)
    /\ FEq(Position(i - 1), Num(-1))
    /\ ~AnyTradeAt(i - 1)

\* C6: no trade is dated at bar 0, and the portfolio value recorded at bar 0
\* is the initial capital, whatever the prices and the periods.
Thm_C6 ==
    /\ ~AnyTradeAt(0)
    /\ Len(portfolio_value) >= 1 => portfolio_value[1] = Num(initial_capital)

\* bar 0 was processed without a trade, and bar 1 bought
Wit_C6 ==
    /\ i >= 2
    /\ TradeAt(1, "BUY")
    /\ portfolio_value[1] = Num(initial_capital)

\* both SMAs exist at row k
BothDefined(k) == k >= slow_period - 1

\* the mean of the last fast_period closes exceeds the mean of the last
\* slow_period closes at row k (cross-multiplied)
FastMeanAbove(k) ==
    SumRange(price, k - fast_period + 1, k) * slow_period
        > SumRange(price, k - slow_period + 1, k) * fast_period

FastMeanEqual(k) ==
    SumRange(price, k - fast_period + 1, k) * slow_period
        = SumRange(price, k - slow_period + 1, k) * fast_period

\* C7: with 1 <= fastPeriod < slowPeriod, at every row k: Signal[k] = 1 iff
\* both SMAs are defined at k (k >= slowPeriod - 1) and fastSMA > slowSMA;
\* otherwise Signal[k] = 0, in particular on ties and where an SMA is
\* undefined.
Thm_C7 ==
    ValidPeriods =>
        \A k \in 0..(Len(price) - 1) :
            /\ (~IsNaN(SMA_Fast(k)) /\ ~IsNaN(SMA_Slow(k))) <=> BothDefined(k)
            /\ Signal(k) \in {0, 1}
            /\ Signal(k) = 1 <=> (BothDefined(k) /\ FastMeanAbove(k))

\* a finished run that bought on a Long row, over a series that also has a
\* tie between two defined SMAs and a row at or after fast_period where the
\* slow SMA is still undefined
Wit_C7 ==
    /\ ValidPeriods
    /\ pc = "done"
    /\ \E k \in 0..(Len(price) - 1) : Signal(k) = 1 /\ TradeAt(k, "BUY")
    /\ \E k \in 0..(Len(price) - 1) : Signal(k) = 1
    /\ \E k \in 0..(Len(price) - 1) :
           BothDefined(k) /\ FastMeanEqual(k) /\ Signal(k) = 0
    /\ \E k \in 0..(Len(price) - 1) :
           k >= fast_period /\ ~BothDefined(k) /\ Signal(k) = 0

\* C8: the first bar on which both SMAs exist (row slowPeriod - 1) never
\* fires a position change: no BUY is executed on that bar, even when
\* fastSMA > slowSMA there.
Claim_C8 ==
    ValidPeriods =>
        /\ ~TradeAt(slow_period - 1, "BUY")
        /\ i > slow_period - 1 =>
               (IsNaN(Position(slow_period - 1))
                   \/ FEq(Position(slow_period - 1), Num(0)))

\* the account after row k, read off the trade log: [cash, btc]
AccountAfter(k) ==
    LET js == {j \in 1..Len(trades) : trades[j].date <= k}
    IN  IF js = {} THEN [cash |-> Num(initial_capital), btc |-> Num(0)]
        ELSE LET t == trades[CHOOSE j \in js : \A h \in js : h <= j]
             IN  IF t.action = "BUY"
                 THEN [cash |-> t.cash_remaining, btc |-> t.btc_amount]
                 ELSE [cash |-> t.cash_remaining, btc |-> Num(0)]

\* C9: the function records exactly one portfolio value per input bar, in
\* bar order: the values recorded so far are those of the rows walked, and
\* when the function is left there is one for every row of the series.  Each
\* equals cash + btc_held * close of that bar after any trade on that bar;
\* on every bar before the first trade the value is the initial capital.
Claim_C9 ==
    ValidPeriods =>
        /\ Len(portfolio_value) = i
        /\ pc \in {"done", "raised"} => Len(portfolio_value) = Len(price)
        /\ i >= 1 => portfolio_value[i] =
                         FAdd(cash, FMul(btc_held, Num(price[i])))
        /\ \A k \in 0..(i - 1) :
               LET acc == AccountAfter(k)
               IN  /\ portfolio_value[k + 1] =
                          FAdd(acc.cash, FMul(acc.btc, Num(price[k + 1])))
                   /\ (\A j \in 1..Len(trades) : trades[j].date > k) =>
                          portfolio_value[k + 1] = Num(initial_capital)

AllClosesPositive == \A k \in 1..Len(price) : price[k] > 0

\* C10: for every series with strictly positive closes, after every bar
\* cash and btc_held are never both strictly positive, and btc_held is
\* never negative.
Thm_C10 ==
    AllClosesPositive =>
        /\ ~(FGt(cash, Num(0)) /\ FGt(btc_held, Num(0)))
        /\ FGe(btc_held, Num(0))

\* fully in holdings again after a round trip, on strictly positive closes
Wit_C10 ==
    /\ AllClosesPositive
    /\ Len(trades) >= 3
    /\ FGt(btc_held, Num(0))
    /\ FEq(cash, Num(0))

\* C11: with no commission, on the same strictly positive closes and the same
\* periods, the portfolio value of the trade-by-trade loop equals the
\* compounded equity of backtest_strategy at every bar i >= 1, and so does
\* the final value (at bar 0 backtest_strategy's equity is NaN).
Thm_C11 ==
    (pc = "done" /\ sample.status = "returned") =>
        /\ Len(sample.equity) = Len(portfolio_value)
        /\ IsNaN(sample.equity[1])
        /\ \A k \in 1..(Len(price) - 1) :
               portfolio_value[k + 1] = sample.equity[k + 1]
        /\ Len(price) >= 2 =>
               /\ result.final_value = sample.equity[Len(price)]
               /\ result.total_return = FMul(sample.total_return, Num(100))

\* both have run over a series with a round trip that changed the equity
Wit_C11 ==
    /\ pc = "done"
    /\ sample.status = "returned"
    /\ Len(trades) >= 2
    /\ ~FEq(result.final_value, Num(initial_capital))
    /\ result.final_value = sample.equity[Len(price)]

\* the first n rows of the series
Prefix(n) == SubSeq(price, 1, n)

\* what bar k - 1 left as equity for bar k to compound (row 0 is NaN)
EquityBefore(k) == IF k = 1 THEN Num(initial_capital) ELSE sample.equity[k]

\* C12: no lookahead.  A run is the same, up to bar i, as the run over the
\* first i + 1 bars alone (so two series that agree on bars 0..i give the
\* same SMAs, Signal, position change, trades and portfolio values up to
\* i); and backtest_strategy credits bar k with the signal of bar k - 1
\* only: flat before, the equity stays; long before, it moves with the close.
Thm_C12 ==
    /\ \A k \in 0..(Len(price) - 1) :
           /\ SMA_Fast(k) = calculate_sma(Prefix(k + 1), fast_period, k)
           /\ SMA_Slow(k) = calculate_sma(Prefix(k + 1), slow_period, k)
           /\ Signal(k) = SignalIn(Prefix(k + 1), k)
           /\ Position(k) = PositionIn(Prefix(k + 1), k)
    /\ LET st == LoopAfter(Prefix(i), i)
       IN  /\ st.cash = cash
           /\ st.btc_held = btc_held
           /\ st.trades = trades
           /\ st.portfolio_value = portfolio_value
    /\ sample.status = "returned" =>
           \A k \in 1..(Len(price) - 1) :
               /\ sample.equity[k + 1] = Equity(Prefix(k + 1), k)
               /\ Signal(k - 1) = 0 => sample.equity[k + 1] = EquityBefore(k)
               /\ Signal(k - 1) = 1 =>
                      sample.equity[k + 1] =
                          FDiv(FMul(EquityBefore(k), Num(price[k + 1])),
                               Num(price[k]))

\* a run that has traded and whose series goes on with a different close;
\* and by the end a bar whose signal turned Long while the close moved
Wit_C12 ==
    /\ sample.status = "returned"
    /\ Len(trades) >= 1
    /\ \E k \in 1..(Len(price) - 1) :
           /\ Signal(k - 1) = 0
           /\ Signal(k) = 1
           /\ price[k + 1] # price[k]
           /\ k + 1 < Len(price)
           /\ price[k + 2] # price[k + 1]

\* the configuration the interface accepts (the loop has no commission rate)
ValidConfiguration == ValidPeriods /\ initial_capital > 0

\* C13: a configuration with slowPeriod <= fastPeriod, a period < 1 or
\* initialCash <= 0 is rejected before any bar is processed: no portfolio
\* value, no trade and no result come out of it.
Claim_C13 ==
    ~ValidConfiguration =>
        /\ i = 0
        /\ portfolio_value = <<>>
        /\ trades = <<>>
        /\ pc # "done"

\* C14: for every series shorter than slowPeriod (length 0 included) the
\* function does not raise and returns a complete result: Signal 0 on every
\* bar, no trade, every portfolio value the initial capital, total return 0.
Claim_C14 ==
    (ValidConfiguration /\ Len(price) < slow_period) =>
        /\ pc # "raised"
        /\ \A k \in 0..(Len(price) - 1) : Signal(k) = 0
        /\ trades = <<>>
        /\ \A j \in 1..Len(portfolio_value) :
               portfolio_value[j] = Num(initial_capital)
        /\ pc = "done" =>
               /\ result.num_trades = 0
               /\ result.final_value = Num(initial_capital)
               /\ result.total_return = Num(0)

\* the returns are degenerate: fewer than two observations, or a standard
\* deviation of 0
DegenerateReturns ==
    \/ Cardinality(Observed(price)) < 2
    \/ FEq(VarReturn(price), Num(0))

\* C15: whenever the standard deviation of the strategy returns is 0 or
\* fewer than 2 return observations exist, backtest_strategy returns
\* sharpe_ratio = 0.
Claim_C15 ==
    (ValidPeriods /\ sample.status = "returned" /\ DegenerateReturns) =>
        sample.sharpe_ratio = "zero"

\* C16: num_trades returned by sma_crossover_strategy is the number of
\* completed round trips (SELL trades, each matched to the BUY before it): a
\* BUY left open at the end is not counted and a BUY/SELL pair counts once.
Claim_C16 ==
    pc = "done" => result.num_trades = NumAction("SELL")

\* every close is above the one before it
StrictlyIncreasing ==
    \A k \in 1..(Len(price) - 1) : price[k + 1] > price[k]

\* the rising series of the scenario: longer than the slow period
RisingScenario ==
    ValidPeriods /\ StrictlyIncreasing /\ Len(price) > slow_period

\* C17: on a strictly increasing close series longer than slowPeriod, with
\* 1 <= fastPeriod < slowPeriod, the run never SELLs and never BUYs twice,
\* the portfolio value never decreases from one bar to the next, and the
\* finished run has exactly one BUY, a final value above the initial capital
\* and a total return above 0.
Thm_C17 ==
    RisingScenario =>
        /\ NumAction("SELL") = 0
        /\ NumAction("BUY") <= 1
        /\ pc # "raised"
        /\ \A j \in 1..(Len(portfolio_value) - 1) :
               FGe(portfolio_value[j + 1], portfolio_value[j])
        /\ pc = "done" =>
               /\ NumAction("BUY") = 1
               /\ TradeAt(slow_period - 1, "BUY")
               /\ result.num_trades = 1
               /\ FGt(result.final_value, Num(initial_capital))
               /\ FGt(result.total_return, Num(0))

\* a finished run on a rising series that bought and then gained on a later
\* bar
Wit_C17 ==
    /\ RisingScenario
    /\ pc = "done"
    /\ NumAction("BUY") = 1
    /\ Len(price) > slow_period + 1
    /\ FGt(portfolio_value[Len(price)], portfolio_value[Len(price) - 1])

\* the orders the broker has not brought to an end
Outstanding == {j \in 1..Len(orders) : orders[j].status \notin Terminal}

\* C18: under any interleaving of next() and notify_order(), at most one
\* order is outstanding; self.order is set exactly while an order is
\* outstanding and names that order: Submitted and Accepted leave it set,
\* Completed, Canceled, Margin and Rejected clear it.
Thm_C18 ==
    /\ Cardinality(Outstanding) <= 1
    /\ order = NoOrder <=> Outstanding = {}
    /\ order # NoOrder => Outstanding = {order}

\* an order was rejected, self.order was cleared, and a later bar created a
\* new order
Wit_C18 ==
    /\ Len(orders) >= 2
    /\ orders[1].status = "Rejected"
    /\ order = 2
    /\ orders[2].status = "Accepted"

\* this step is a call of next() with no order pending
NextCalledFree == bars' = bars + 1 /\ order = NoOrder

\* this step created an order of this side
Created(side) ==
    /\ Len(orders') = Len(orders) + 1
    /\ orders'[Len(orders')].side = side
    /\ order' = Len(orders')

\* C19: when next() runs with no pending order, an open position and the
\* fast average equal to the slow one, it creates a sell order; it creates a
\* buy only when flat with the fast average above the slow one, and never a
\* sell when flat.
Claim_C19 ==
    [][NextCalledFree =>
          /\ (position_size # 0 /\ sma_cmp' = "eq") => Created("sell")
          /\ Created("buy") => (position_size = 0 /\ sma_cmp' = "gt")
          /\ Created("sell") => position_size # 0]_vars

\* C20: whenever run_backtest has returned, main consumes the value and
\* finishes without entering its error handler and without exit code 1.
Claim_C20 ==
    returned # <<>> => main_pc \notin {"handler", "exit1"}

====
